---- MODULE Spec2Model ----
(***************************************************************************)
(* The omk-bridge Solana program (contracts/solana/omk-bridge/src/lib.rs)  *)
(* as a state machine.  One action per instruction.  A Solana transaction  *)
(* is atomic and the runtime serialises transactions that write-lock the   *)
(* same account (bridge_state is `mut` in every instruction but            *)
(* initialize, whose `init` account is write-locked too), so every         *)
(* instruction is one atomic step: it either commits all of its writes or, *)
(* on any error, none of them.                                             *)
(*                                                                         *)
(* An instruction runs in two stages: Anchor validates the accounts struct *)
(* (#[derive(Accounts)]: `init`, `has_one`, deserialisation) and only then *)
(* calls the handler body.                                                 *)
(***************************************************************************)
EXTENDS Integers, Sequences, FiniteSets, TLC

\* ------------------------------------------------------------------ bounds
\* Width of the u64 fields in the model (the program's is 64).
U64Bits == 7
\* Successful mints and burns are explored while nonce < MaxNonce.
MaxNonce == 4

U64Mod == 2 ^ U64Bits

\* ---------------------------------------------------------- input domains
\* Public keys of the callers / token-account owners.
Keys == {"k1", "k2"}
\* 32-byte Ethereum transaction hashes.
Hashes == {"h1", "h2"}
\* 20-byte Ethereum addresses.
EthAddrs == {"e1"}
\* u64 amounts submitted.
Amounts == {0, 40, 100}
\* 65-byte signature blobs: a valid signature of validator v1 or v2, or a
\* blob that verifies against no validator.
Signatures == {"v1", "v2", "bad"}
\* u8 values given as required_validators.
ReqValues == {0, 1, 2}
\* validators_signatures vectors submitted: none, one valid, the same valid
\* one twice, one valid padded with a bad one, two distinct valid ones.
SigLists == {<<>>, <<"v1">>, <<"v1", "v1">>, <<"v2", "bad">>, <<"v1", "v2">>}
\* Values of the Clock sysvar.
Times == {0, 1}

\* Number of distinct validators with a valid signature in the list.
DistinctValid(sigs) == Cardinality({sigs[i] : i \in DOMAIN sigs} \ {"bad"})

\* ------------------------------------------------------------------ state
VARIABLES
    bridge_state_init,   \* the bridge_state PDA has been created
    bridge_state,        \* BridgeState account data
    processed_tx,        \* ProcessedTransaction PDAs: hash -> account data
    burn_transaction,    \* BurnTransaction PDAs: <<user, nonce>> -> account data
    token_supply,        \* wrapped_omk_mint.supply (SPL token program)
    token_balance,       \* token account balance of each owner
    clock,               \* Clock sysvar unix_timestamp
    pauseRejected,       \* history: hash of the last mint rejected as paused and
                         \*          not yet resubmitted to the unpaused bridge
    mintCalls,           \* history: committed token::mint_to calls per hash
    sumMinted,           \* history: sum of the amounts of the committed mints
    sumBurned,           \* history: sum of the amounts of the committed burns
    burnLog,             \* history: nonces of the burn records, in commit order
    last                 \* history: the last instruction, its inputs and result

state == <<bridge_state_init, bridge_state, processed_tx, burn_transaction,
           token_supply, token_balance>>
history == <<mintCalls, sumMinted, sumBurned, burnLog>>
vars == <<state, history, pauseRejected, clock, last>>

\* A zero-filled BridgeState, as the data of a newly allocated account.
ZeroBridgeState ==
    [ethereum_bridge |-> "none", required_validators |-> 0, total_minted |-> 0,
     total_burned |-> 0, nonce |-> 0, authority |-> "none", paused |-> FALSE]

\* A zero-filled ProcessedTransaction: what `init` hands to the handler.
ZeroProcessedTransaction ==
    [is_processed |-> FALSE, ethereum_tx_hash |-> "none", amount |-> 0,
     recipient |-> "none", timestamp |-> 0]

\* A zero-filled BurnTransaction.
ZeroBurnTransaction ==
    [user |-> "none", amount |-> 0, ethereum_recipient |-> "none", timestamp |-> 0,
     nonce |-> 0, processed_on_ethereum |-> FALSE]

\* Account map m with the account at address k created or overwritten.
WithAccount(m, k, data) ==
    [x \in (DOMAIN m) \cup {k} |-> IF x = k THEN data ELSE m[x]]

NoOp ==
    [op |-> "none", caller |-> "none", hash |-> "none", amount |-> 0, nsigs |-> 0,
     distinct |-> 0, required |-> 0, eth |-> "none", ledger_ok |-> TRUE,
     result |-> "Ok"]

Init ==
    /\ bridge_state_init = FALSE
    /\ bridge_state = ZeroBridgeState
    /\ processed_tx = [h \in {} |-> ZeroProcessedTransaction]
    /\ burn_transaction = [k \in {} |-> ZeroBurnTransaction]
    /\ token_supply = 0
    /\ token_balance = [k \in Keys |-> 0]
    /\ clock = 0
    /\ pauseRejected = "none"
    /\ mintCalls = [h \in Hashes |-> 0]
    /\ sumMinted = 0
    /\ sumBurned = 0
    /\ burnLog = <<>>
    /\ last = NoOp

\* --------------------------------------------------------- u64 arithmetic
\* `a += b` on u64.  When the sum does not fit, the program panics if it was
\* built with overflow-checks and the sum wraps if it was not; the build
\* profile is not part of the source, so both outcomes are possible.
Overflows(a, b) == a + b >= U64Mod
WrappingAdd(a, b) == (a + b) % U64Mod

\* ------------------------------------------------------ account validation
\* `init` on a PDA: the system program refuses to create an account at an
\* address that is already allocated.
InitInUse_reinit(exists) == FALSE
InitInUse(exists) == exists

\* #[account(init, seeds = [b"bridge_state"])] of Initialize.
InitializeAccounts ==
    IF InitInUse(bridge_state_init) THEN "AccountAlreadyInUse" ELSE "Ok"

\* seeds = [b"processed_tx", &ethereum_tx_hash]: the address of the record.
ProcessedTxAddress_fixed(h) == "h1"
ProcessedTxAddress(h) == h

\* Accounts of MintWrapped: bridge_state must deserialise, processed_tx is
\* created by `init`.
MintWrappedAccounts(h) ==
    IF ~bridge_state_init THEN "AccountNotInitialized"
    ELSE IF InitInUse(ProcessedTxAddress(h) \in DOMAIN processed_tx)
         THEN "AccountAlreadyInUse"
    ELSE "Ok"

\* seeds = [b"burn_tx", user.key(), bridge_state.nonce.to_le_bytes()].
BurnTxAddress_nononce(user, nonce) == <<user, 0>>
BurnTxAddress(user, nonce) == <<user, nonce>>

\* Accounts of BurnWrapped: bridge_state must deserialise, burn_transaction
\* is created by `init` at the address derived from the current nonce.
BurnWrappedAccounts(user) ==
    IF ~bridge_state_init THEN "AccountNotInitialized"
    ELSE IF InitInUse(BurnTxAddress(user, bridge_state.nonce) \in DOMAIN burn_transaction)
         THEN "AccountAlreadyInUse"
    ELSE "Ok"

\* has_one = authority, with authority: Signer: the signing caller must be
\* the key stored in bridge_state.authority.
HasOneAuthority_any(caller) == TRUE
HasOneAuthority(caller) == bridge_state.authority = caller

\* Accounts of AdminAction.
AdminActionAccounts(caller) ==
    IF ~bridge_state_init THEN "AccountNotInitialized"
    ELSE IF ~HasOneAuthority(caller) THEN "ConstraintHasOne"
    ELSE "Ok"

\* ------------------------------------------------------------ token ledger
\* token::mint_to: the SPL token program adds to the supply and to the
\* destination balance with checked arithmetic; ledger_ok = FALSE stands for
\* its other failures (frozen account, wrong mint, ...).
MintToOk(amount, ledger_ok) == ledger_ok /\ ~Overflows(token_supply, amount)

\* token::burn: fails when the account holds less than amount.
BurnOk_nobalance(user, amount, ledger_ok) == ledger_ok
BurnOk(user, amount, ledger_ok) == ledger_ok /\ token_balance[user] >= amount

\* ---------------------------------------------------------------- handlers
\* validators_signatures.len() >= required_validators as usize
QuorumMet(sigs, required) == Len(sigs) >= required

\* bridge_state.nonce += 1
NextNonce_skip(n) == n
NextNonce(n) == WrappingAdd(n, 1)

\* burn_tx.nonce = bridge_state.nonce
BurnTxNonce_zero(n) == 0
BurnTxNonce(n) == n

\* bridge_state.total_minted += amount / bridge_state.total_burned += amount
AddAmount(total, amount) == WrappingAdd(total, amount)

\* Outcomes of the two `+=` statements that end a handler ("Update stats").
UpdateStats(total, amount) ==
    IF Overflows(total, amount) \/ Overflows(bridge_state.nonce, 1)
    THEN {"ProgramFailedToComplete", "Ok"}
    ELSE {"Ok"}

\* The handler body of initialize: every field of the new account is set.
InitializedState_noauthority(caller, ethereum_bridge, required_validators) ==
    [ethereum_bridge |-> ethereum_bridge,
     required_validators |-> required_validators,
     total_minted |-> 0, total_burned |-> 0, nonce |-> 0,
     authority |-> ZeroBridgeState.authority, paused |-> FALSE]
InitializedState(caller, ethereum_bridge, required_validators) ==
    [ethereum_bridge |-> ethereum_bridge,
     required_validators |-> required_validators,
     total_minted |-> 0, total_burned |-> 0, nonce |-> 0,
     authority |-> caller, paused |-> FALSE]

\* bridge_state.paused = true / bridge_state.paused = false
SetPaused_toggle(bs, flag) == [bs EXCEPT !.paused = ~bs.paused]
SetPaused(bs, flag) == [bs EXCEPT !.paused = flag]

\* The processed_tx accounts after a mint_wrapped transaction that ended
\* with res: the handler writes the record before the token::mint_to call,
\* and the runtime keeps the write only if the instruction returns Ok.
ProcessedTxAfter_norollback(res, h, data) ==
    IF res \in {"Ok", "LedgerError", "ProgramFailedToComplete"}
    THEN WithAccount(processed_tx, ProcessedTxAddress(h), data)
    ELSE processed_tx
ProcessedTxAfter(res, h, data) ==
    IF res = "Ok"
    THEN WithAccount(processed_tx, ProcessedTxAddress(h), data)
    ELSE processed_tx

\* The mint_wrapped handler with an amount check like burn_wrapped's.
MintWrappedHandler_amountcheck(amount, sigs, ledger_ok) ==
    IF bridge_state.paused THEN {"BridgePaused"}
    ELSE IF ~(amount > 0) THEN {"InvalidAmount"}
    ELSE IF ~QuorumMet(sigs, bridge_state.required_validators)
         THEN {"InsufficientValidators"}
    ELSE IF ~MintToOk(amount, ledger_ok) THEN {"LedgerError"}
    ELSE UpdateStats(bridge_state.total_minted, amount)

\* Possible results of the mint_wrapped handler body, given the freshly
\* created processed_tx account.
MintWrappedHandler(amount, sigs, ledger_ok) ==
    IF bridge_state.paused THEN {"BridgePaused"}
    ELSE IF ZeroProcessedTransaction.is_processed THEN {"AlreadyProcessed"}
    ELSE IF ~QuorumMet(sigs, bridge_state.required_validators)
         THEN {"InsufficientValidators"}
    ELSE IF ~MintToOk(amount, ledger_ok) THEN {"LedgerError"}
    ELSE UpdateStats(bridge_state.total_minted, amount)

\* Possible results of a mint_wrapped transaction.
MintWrappedResult(amount, h, sigs, ledger_ok) ==
    IF MintWrappedAccounts(h) # "Ok" THEN {MintWrappedAccounts(h)}
    ELSE MintWrappedHandler(amount, sigs, ledger_ok)

\* Possible results of the burn_wrapped handler body.
BurnWrappedHandler(user, amount, ledger_ok) ==
    IF bridge_state.paused THEN {"BridgePaused"}
    ELSE IF ~(amount > 0) THEN {"InvalidAmount"}
    ELSE IF ~BurnOk(user, amount, ledger_ok) THEN {"LedgerError"}
    ELSE UpdateStats(bridge_state.total_burned, amount)

\* Possible results of a burn_wrapped transaction.
BurnWrappedResult(user, amount, ledger_ok) ==
    IF BurnWrappedAccounts(user) # "Ok" THEN {BurnWrappedAccounts(user)}
    ELSE BurnWrappedHandler(user, amount, ledger_ok)

\* ----------------------------------------------------------------- actions
initialize ==
    /\ last = NoOp
    /\ \E caller \in Keys, ethereum_bridge \in EthAddrs, required_validators \in ReqValues :
        LET res == InitializeAccounts IN
        /\ IF res = "Ok"
           THEN /\ bridge_state_init' = TRUE
                /\ bridge_state' =
                       InitializedState(caller, ethereum_bridge, required_validators)
           ELSE UNCHANGED <<bridge_state_init, bridge_state>>
        /\ UNCHANGED <<processed_tx, burn_transaction, token_supply, token_balance>>
        /\ UNCHANGED <<history, clock, pauseRejected>>
        /\ last' = [NoOp EXCEPT !.op = "initialize", !.caller = caller,
                                !.required = required_validators,
                                !.eth = ethereum_bridge, !.result = res]

\* The relayer (payer and signer) has no effect on the state and is left out;
\* recipient_token_account is taken to be the recipient's own token account.
mint_wrapped ==
    /\ last = NoOp
    /\ \E amount \in Amounts, h \in Hashes, sigs \in SigLists,
       recipient \in Keys, ledger_ok \in BOOLEAN :
      \E res \in MintWrappedResult(amount, h, sigs, ledger_ok) :
        /\ (res = "Ok") => bridge_state.nonce < MaxNonce
        /\ processed_tx' =
               ProcessedTxAfter(res, h,
                   [is_processed |-> TRUE, ethereum_tx_hash |-> h,
                    amount |-> amount, recipient |-> recipient,
                    timestamp |-> clock])
        /\ IF res = "Ok"
           THEN /\ token_supply' = token_supply + amount
                /\ token_balance' = [token_balance EXCEPT ![recipient] = @ + amount]
                /\ bridge_state' =
                       [bridge_state EXCEPT !.total_minted = AddAmount(@, amount),
                                            !.nonce = NextNonce(@)]
                /\ mintCalls' = [mintCalls EXCEPT ![h] = @ + 1]
                /\ sumMinted' = sumMinted + amount
                /\ UNCHANGED <<bridge_state_init, burn_transaction, sumBurned, burnLog>>
           ELSE UNCHANGED <<bridge_state_init, bridge_state, burn_transaction,
                            token_supply, token_balance, history>>
        /\ pauseRejected' =
               IF res = "BridgePaused" THEN h
               ELSE IF h = pauseRejected THEN "none"
               ELSE pauseRejected
        /\ UNCHANGED clock
        /\ last' = [NoOp EXCEPT !.op = "mint_wrapped", !.hash = h, !.amount = amount,
                                !.nsigs = Len(sigs), !.distinct = DistinctValid(sigs),
                                !.ledger_ok = ledger_ok, !.result = res]

burn_wrapped ==
    /\ last = NoOp
    /\ \E user \in Keys, amount \in Amounts, ethereum_recipient \in EthAddrs,
       ledger_ok \in BOOLEAN :
      \E res \in BurnWrappedResult(user, amount, ledger_ok) :
        /\ (res = "Ok") => bridge_state.nonce < MaxNonce
        /\ IF res = "Ok"
           THEN /\ token_supply' = token_supply - amount
                /\ token_balance' = [token_balance EXCEPT ![user] = @ - amount]
                /\ burn_transaction' =
                       WithAccount(burn_transaction,
                           BurnTxAddress(user, bridge_state.nonce),
                           [user |-> user, amount |-> amount,
                            ethereum_recipient |-> ethereum_recipient,
                            timestamp |-> clock,
                            nonce |-> BurnTxNonce(bridge_state.nonce),
                            processed_on_ethereum |-> FALSE])
                /\ bridge_state' =
                       [bridge_state EXCEPT !.total_burned = AddAmount(@, amount),
                                            !.nonce = NextNonce(@)]
                /\ sumBurned' = sumBurned + amount
                /\ burnLog' = Append(burnLog, BurnTxNonce(bridge_state.nonce))
                /\ UNCHANGED <<bridge_state_init, processed_tx, mintCalls, sumMinted>>
           ELSE UNCHANGED <<state, history>>
        /\ UNCHANGED <<clock, pauseRejected>>
        /\ last' = [NoOp EXCEPT !.op = "burn_wrapped", !.caller = user,
                                !.amount = amount, !.eth = ethereum_recipient,
                                !.ledger_ok = ledger_ok,
                                !.result = res]

pause_bridge ==
    /\ last = NoOp
    /\ \E caller \in Keys :
        LET res == AdminActionAccounts(caller) IN
        /\ IF res = "Ok"
           THEN bridge_state' = SetPaused(bridge_state, TRUE)
           ELSE UNCHANGED bridge_state
        /\ UNCHANGED <<bridge_state_init, processed_tx, burn_transaction,
                       token_supply, token_balance>>
        /\ UNCHANGED <<history, clock, pauseRejected>>
        /\ last' = [NoOp EXCEPT !.op = "pause_bridge", !.caller = caller,
                                !.result = res]

unpause_bridge ==
    /\ last = NoOp
    /\ \E caller \in Keys :
        LET res == AdminActionAccounts(caller) IN
        /\ IF res = "Ok"
           THEN bridge_state' = SetPaused(bridge_state, FALSE)
           ELSE UNCHANGED bridge_state
        /\ UNCHANGED <<bridge_state_init, processed_tx, burn_transaction,
                       token_supply, token_balance>>
        /\ UNCHANGED <<history, clock, pauseRejected>>
        /\ last' = [NoOp EXCEPT !.op = "unpause_bridge", !.caller = caller,
                                !.result = res]

update_validators ==
    /\ last = NoOp
    /\ \E caller \in Keys, required_validators \in ReqValues :
        LET res == AdminActionAccounts(caller) IN
        /\ IF res = "Ok"
           THEN bridge_state' =
                    [bridge_state EXCEPT !.required_validators = required_validators]
           ELSE UNCHANGED bridge_state
        /\ UNCHANGED <<bridge_state_init, processed_tx, burn_transaction,
                       token_supply, token_balance>>
        /\ UNCHANGED <<history, clock, pauseRejected>>
        /\ last' = [NoOp EXCEPT !.op = "update_validators", !.caller = caller,
                                !.required = required_validators, !.result = res]

\* Time passes between transactions.
Tick ==
    /\ last = NoOp
    /\ clock + 1 \in Times
    /\ clock' = clock + 1
    /\ UNCHANGED <<state, history, pauseRejected, last>>

\* The result of the last transaction has been delivered to its sender; the
\* runtime processes the next transaction.
Return ==
    /\ last # NoOp
    /\ last' = NoOp
    /\ UNCHANGED <<state, history, clock, pauseRejected>>

Next ==
    \/ initialize
    \/ mint_wrapped
    \/ burn_wrapped
    \/ pause_bridge
    \/ unpause_bridge
    \/ update_validators
    \/ Tick
    \/ Return

Spec == Init /\ [][Next]_vars

\* ================================================================== claims
Instructions ==
    {"initialize", "mint_wrapped", "burn_wrapped", "pause_bridge",
     "unpause_bridge", "update_validators"}
AdminOps == {"pause_bridge", "unpause_bridge", "update_validators"}

RECURSIVE SumOver(_, _)
\* Sum of the amount fields of the accounts of map m at the addresses in S.
SumOver(m, S) ==
    IF S = {} THEN 0
    ELSE LET k == CHOOSE x \in S : TRUE IN m[k].amount + SumOver(m, S \ {k})

RECURSIVE SumCalls(_)
SumCalls(S) ==
    IF S = {} THEN 0
    ELSE LET h == CHOOSE x \in S : TRUE IN mintCalls[h] + SumCalls(S \ {h})

\* C1: replay protection.  For every hash h at most one mint referencing h
\* is ever committed: token::mint_to is committed at most once per h, and
\* exactly when the ProcessedTransaction record of h exists.
C1_ReplayProtection ==
    \A h \in Hashes :
        /\ mintCalls[h] <= 1
        /\ (mintCalls[h] = 1) <=> (h \in DOMAIN processed_tx)

\* C1 witness: a second mint request for a hash that was minted is rejected.
C1_Witness ==
    /\ last.op = "mint_wrapped"
    /\ last.result = "AccountAlreadyInUse"
    /\ ~bridge_state.paused
    /\ last.nsigs >= bridge_state.required_validators
    /\ mintCalls[last.hash] = 1

\* C2 (as claimed): on an unpaused bridge a mint request for a hash whose
\* ProcessedTransaction record exists is rejected with AlreadyProcessed and
\* changes nothing.
C2_AlreadyProcessedError ==
    [][(/\ last'.op = "mint_wrapped"
        /\ bridge_state_init
        /\ ~bridge_state.paused
        /\ last'.hash \in DOMAIN processed_tx)
       => (/\ last'.result = "AlreadyProcessed"
           /\ UNCHANGED <<state, history>>)]_vars

\* C3 (as claimed): a mint request with fewer than required_validators
\* distinct valid signers mints nothing, and when the bridge is unpaused and
\* the hash unprocessed it is rejected with InsufficientValidators.
C3_QuorumGate ==
    [][(/\ last'.op = "mint_wrapped"
        /\ bridge_state_init
        /\ last'.distinct < bridge_state.required_validators)
       => (/\ last'.result # "Ok"
           /\ UNCHANGED <<state, history>>
           /\ (~bridge_state.paused /\ last'.hash \notin DOMAIN processed_tx)
                  => last'.result = "InsufficientValidators")]_vars

\* C4 (as claimed): while paused, every mint_wrapped and burn_wrapped
\* request fails with BridgePaused and changes nothing.
C4_PausedRejectsAll ==
    [][(/\ last'.op \in {"mint_wrapped", "burn_wrapped"}
        /\ bridge_state_init
        /\ bridge_state.paused)
       => (/\ last'.result = "BridgePaused"
           /\ UNCHANGED <<state, history>>)]_vars

\* C5 (as claimed): pause recovery.  A hash whose mint was rejected because
\* the bridge was paused stays unprocessed, and once the bridge is unpaused
\* the next mint for it with enough signatures succeeds unless the ledger
\* call fails; likewise a burn of a positive amount then succeeds unless the
\* ledger call fails.
C5_PauseRecovery ==
    /\ [](pauseRejected # "none" => pauseRejected \notin DOMAIN processed_tx)
    /\ [][/\ (/\ last'.op = "mint_wrapped"
              /\ last'.hash = pauseRejected
              /\ ~bridge_state.paused
              /\ last'.nsigs >= bridge_state.required_validators
              /\ last'.result # "LedgerError")
             => last'.result = "Ok"
          /\ (/\ last'.op = "burn_wrapped"
              /\ pauseRejected # "none"
              /\ ~bridge_state.paused
              /\ last'.amount > 0
              /\ last'.result # "LedgerError")
             => last'.result = "Ok"]_vars

\* C6 (as claimed): total_minted is the sum of the amounts of the committed
\* mints, which is the sum of amount over the ProcessedTransaction records,
\* and total_burned the same over the burns and the BurnTransaction records.
C6_Accounting ==
    /\ bridge_state.total_minted = sumMinted
    /\ sumMinted = SumOver(processed_tx, DOMAIN processed_tx)
    /\ bridge_state.total_burned = sumBurned
    /\ sumBurned = SumOver(burn_transaction, DOMAIN burn_transaction)

\* C7 (as claimed): no transition decreases total_minted, total_burned or
\* nonce.
C7_MonotonicCounters ==
    [][/\ bridge_state'.total_minted >= bridge_state.total_minted
       /\ bridge_state'.total_burned >= bridge_state.total_burned
       /\ bridge_state'.nonce >= bridge_state.nonce]_vars

\* C8: nonce stepping.  A committed mint_wrapped or burn_wrapped raises nonce
\* by exactly 1, every other transition leaves it unchanged, and nonce is
\* the number of committed mints plus the number of committed burns.
C8_NonceStepping ==
    /\ [](bridge_state.nonce = SumCalls(Hashes) + Len(burnLog))
    /\ [][IF last'.op \in {"mint_wrapped", "burn_wrapped"} /\ last'.result = "Ok"
          THEN bridge_state'.nonce = bridge_state.nonce + 1
          ELSE bridge_state'.nonce = bridge_state.nonce]_vars

\* C8 witness: a burn committed after a mint, nonce = 2.
C8_Witness ==
    /\ last.op = "burn_wrapped"
    /\ last.result = "Ok"
    /\ SumCalls(Hashes) = 1
    /\ bridge_state.nonce = 2

\* C9: burn nonce uniqueness.  No two BurnTransaction records carry the same
\* nonce, and the nonces of the records strictly increase in commit order.
C9_BurnNonceUnique ==
    /\ \A a, b \in DOMAIN burn_transaction :
           a # b => burn_transaction[a].nonce # burn_transaction[b].nonce
    /\ \A i, j \in DOMAIN burnLog : i < j => burnLog[i] < burnLog[j]
    /\ {burn_transaction[a].nonce : a \in DOMAIN burn_transaction}
           = {burnLog[i] : i \in DOMAIN burnLog}
    /\ Cardinality(DOMAIN burn_transaction) = Len(burnLog)

\* C9 witness: two burn records of different owners, with a mint committed
\* between or before them.
C9_Witness ==
    /\ \E a, b \in DOMAIN burn_transaction : a[1] # b[1]
    /\ SumCalls(Hashes) >= 1

\* The program's authorization failure: Anchor's has_one violation.
Unauthorized == "ConstraintHasOne"

\* C10: admin authorization.  An admin instruction signed by a key other
\* than bridge_state.authority is rejected as unauthorized and changes
\* nothing; once initialized, paused and required_validators change only in
\* admin instructions signed by the authority.
C10_AdminAuthorization ==
    [][/\ (/\ last'.op \in AdminOps
           /\ bridge_state_init
           /\ last'.caller # bridge_state.authority)
          => (/\ last'.result = Unauthorized
              /\ UNCHANGED <<state, history>>)
       /\ (/\ bridge_state_init
           /\ \/ bridge_state'.paused # bridge_state.paused
              \/ bridge_state'.required_validators # bridge_state.required_validators)
          => (/\ last'.op \in AdminOps
              /\ last'.caller = bridge_state.authority)]_vars

\* C10 witness: a non-authority caller tried to pause a bridge that had
\* minted, and was rejected.
C10_Witness ==
    /\ last.op = "pause_bridge"
    /\ last.caller # bridge_state.authority
    /\ last.result = Unauthorized
    /\ bridge_state.nonce > 0

\* C11: mint all-or-nothing.  When the ledger mint call of a mint_wrapped for
\* hash h fails, nothing is committed: no ProcessedTransaction record of h
\* exists afterwards, total_minted and nonce are unchanged, and a mint for h
\* with a quorum and a succeeding ledger call can still succeed.  A record
\* appears and total_minted or nonce change in a mint_wrapped only together
\* with a committed ledger mint of the same amount.
C11_MintAllOrNothing ==
    [][/\ (last'.op = "mint_wrapped" /\ last'.result = "LedgerError")
          => (/\ UNCHANGED <<state, history>>
              /\ last'.hash \notin DOMAIN processed_tx'
              /\ \A h \in Hashes :
                     h = last'.hash
                     => ("Ok" \in MintWrappedResult(0, h, <<"v1", "v2">>, TRUE))')
       /\ (/\ last'.op = "mint_wrapped"
           /\ \/ processed_tx' # processed_tx
              \/ bridge_state' # bridge_state)
          => (/\ last'.result = "Ok"
              /\ mintCalls' = [mintCalls EXCEPT ![last'.hash] = @ + 1]
              /\ token_supply' = token_supply + last'.amount
              /\ DOMAIN processed_tx' = DOMAIN processed_tx \cup {last'.hash}
              /\ last'.hash \notin DOMAIN processed_tx)]_vars

\* C11 witness: the ledger call of a mint with a quorum failed on a bridge
\* that had already minted another hash.
C11_Witness ==
    /\ last.op = "mint_wrapped"
    /\ last.result = "LedgerError"
    /\ last.amount > 0
    /\ last.hash \notin DOMAIN processed_tx
    /\ DOMAIN processed_tx # {}

\* C12: burn all-or-nothing.  When the ledger burn call of a burn_wrapped
\* fails (the owner holds less than amount, or the ledger refuses), the
\* transaction ends with the ledger's error and changes nothing: no
\* BurnTransaction record, total_burned, nonce and the balance unchanged.
C12_BurnAllOrNothing ==
    [][/\ (/\ last'.op = "burn_wrapped"
           /\ bridge_state_init
           /\ ~bridge_state.paused
           /\ last'.amount > 0
           /\ (token_balance[last'.caller] < last'.amount \/ ~last'.ledger_ok))
          => last'.result = "LedgerError"
       /\ (last'.op = "burn_wrapped" /\ last'.result = "LedgerError")
          => UNCHANGED <<state, history>>]_vars

\* C12 witness: a burn of more than the owner holds was refused by the
\* ledger although the ledger was otherwise willing.
C12_Witness ==
    /\ last.op = "burn_wrapped"
    /\ last.result = "LedgerError"
    /\ last.ledger_ok
    /\ token_balance[last.caller] > 0
    /\ token_balance[last.caller] < last.amount

\* The rejection of a second initialize: `init` finds the bridge_state PDA
\* allocated (the program defines no error of its own for it).
AlreadyInitialized == "AccountAlreadyInUse"

\* C13: initialization.  The first initialize creates BridgeState with zero
\* counters, paused = false, the given bridge address and required_validators
\* and authority = the caller; a later initialize is rejected and changes
\* nothing.
C13_Initialization ==
    [][last'.op = "initialize"
       => IF ~bridge_state_init
          THEN /\ last'.result = "Ok"
               /\ bridge_state_init'
               /\ bridge_state' =
                      [ethereum_bridge |-> last'.eth,
                       required_validators |-> last'.required,
                       total_minted |-> 0, total_burned |-> 0, nonce |-> 0,
                       authority |-> last'.caller, paused |-> FALSE]
               /\ UNCHANGED <<processed_tx, burn_transaction, token_supply,
                              token_balance, history>>
          ELSE /\ last'.result = AlreadyInitialized
               /\ UNCHANGED <<state, history>>]_vars

\* C13 witness: a second initialize, by another caller, on a paused bridge
\* that had minted, was rejected.
C13_Witness ==
    /\ last.op = "initialize"
    /\ last.result = AlreadyInitialized
    /\ last.caller # bridge_state.authority
    /\ bridge_state.paused
    /\ bridge_state.nonce > 0

\* The state after initialize with required_validators = 2 and nothing else.
ScenarioStart ==
    /\ bridge_state_init
    /\ bridge_state.required_validators = 2
    /\ ~bridge_state.paused
    /\ bridge_state.nonce = 0
    /\ bridge_state.total_minted = 0
    /\ bridge_state.total_burned = 0
    /\ DOMAIN processed_tx = {}

\* The state after the scenario's mint of 100 for hash h.
ScenarioMinted(h) ==
    /\ bridge_state_init
    /\ bridge_state.required_validators = 2
    /\ ~bridge_state.paused
    /\ bridge_state.nonce = 1
    /\ bridge_state.total_minted = 100
    /\ bridge_state.total_burned = 0
    /\ DOMAIN processed_tx = {h}
    /\ processed_tx[h].amount = 100

\* C14 (as claimed): the end-to-end scenario.  After initialize with
\* required_validators = 2, a mint of 100 with attestations [v1, v2] (ledger
\* call succeeding) succeeds and gives total_minted = 100, nonce = 1; the
\* same mint resubmitted is rejected with AlreadyProcessed; a burn of 40 by an
\* owner U holding the tokens succeeds and gives total_burned = 40,
\* nonce = 2 and a burn record of U with nonce 2 and
\* processed_on_ethereum = false.
C14_Scenario ==
    [][/\ (/\ ScenarioStart
           /\ last'.op = "mint_wrapped"
           /\ last'.amount = 100 /\ last'.nsigs = 2 /\ last'.distinct = 2
           /\ last'.ledger_ok)
          => (/\ last'.result = "Ok"
              /\ bridge_state'.total_minted = 100
              /\ bridge_state'.nonce = 1)
       /\ \A h \in Hashes :
            /\ (/\ ScenarioMinted(h)
                /\ last'.op = "mint_wrapped"
                /\ last'.hash = h
                /\ last'.amount = 100 /\ last'.nsigs = 2 /\ last'.distinct = 2)
               => (/\ last'.result = "AlreadyProcessed"
                   /\ UNCHANGED <<state, history>>)
            /\ (/\ ScenarioMinted(h)
                /\ last'.op = "burn_wrapped"
                /\ last'.amount = 40
                /\ last'.ledger_ok
                /\ token_balance[last'.caller] >= 40)
               => (/\ last'.result = "Ok"
                   /\ bridge_state'.total_burned = 40
                   /\ bridge_state'.nonce = 2
                   /\ \E k \in DOMAIN burn_transaction' :
                        /\ burn_transaction'[k].user = last'.caller
                        /\ burn_transaction'[k].nonce = 2
                        /\ ~burn_transaction'[k].processed_on_ethereum)]_vars

\* C15: burn record contents.  A committed burn_wrapped by U, with n the
\* nonce before it, creates exactly one BurnTransaction record, at (U, n),
\* holding user U, the given amount and recipient, the current time, nonce n
\* and processed_on_ethereum = false, and leaves nonce = n + 1; records change
\* in no other transition and processed_on_ethereum is never true.
C15_BurnRecord ==
    /\ [](\A k \in DOMAIN burn_transaction :
              ~burn_transaction[k].processed_on_ethereum)
    /\ [][IF last'.op = "burn_wrapped" /\ last'.result = "Ok"
          THEN LET k == <<last'.caller, bridge_state.nonce>> IN
               /\ k \notin DOMAIN burn_transaction
               /\ DOMAIN burn_transaction' = DOMAIN burn_transaction \cup {k}
               /\ \A j \in DOMAIN burn_transaction :
                      burn_transaction'[j] = burn_transaction[j]
               /\ burn_transaction'[k] =
                      [user |-> last'.caller, amount |-> last'.amount,
                       ethereum_recipient |-> last'.eth, timestamp |-> clock,
                       nonce |-> bridge_state.nonce,
                       processed_on_ethereum |-> FALSE]
               /\ bridge_state'.nonce = bridge_state.nonce + 1
          ELSE burn_transaction' = burn_transaction]_vars

\* C15 witness: a second burn of the same owner was committed, after time
\* had passed, so the owner has records at two nonces.
C15_Witness ==
    /\ last.op = "burn_wrapped"
    /\ last.result = "Ok"
    /\ clock > 0
    /\ \E a, b \in DOMAIN burn_transaction :
           a[1] = last.caller /\ b[1] = last.caller /\ a[2] < b[2]

\* C16: admin frame.  A committed pause_bridge / unpause_bridge sets paused
\* to true / false and a committed update_validators(n) sets
\* required_validators to n; each changes nothing else of BridgeState, of the
\* two logs or of the ledger.
C16_AdminFrame ==
    [][(last'.op \in AdminOps /\ last'.result = "Ok")
       => (/\ bridge_state' =
                  CASE last'.op = "pause_bridge" ->
                           [bridge_state EXCEPT !.paused = TRUE]
                    [] last'.op = "unpause_bridge" ->
                           [bridge_state EXCEPT !.paused = FALSE]
                    [] last'.op = "update_validators" ->
                           [bridge_state EXCEPT
                                !.required_validators = last'.required]
           /\ UNCHANGED <<bridge_state_init, processed_tx, burn_transaction,
                          token_supply, token_balance, history>>)]_vars

\* C16 witness: the authority paused a bridge holding a mint and a burn
\* record whose required_validators it had set to 0.
C16_Witness ==
    /\ last.op = "pause_bridge"
    /\ last.result = "Ok"
    /\ bridge_state.paused
    /\ bridge_state.required_validators = 0
    /\ DOMAIN processed_tx # {}
    /\ DOMAIN burn_transaction # {}

\* C17: dedup log immutability.  Once a ProcessedTransaction entry for a hash
\* exists, no transition (a mint with the same or another hash, a burn, an
\* admin action, a failed attempt) changes any of its fields or removes it;
\* in every entry is_processed = true and ethereum_tx_hash equals its key.
C17_LogImmutable ==
    /\ [](\A h \in DOMAIN processed_tx :
              /\ processed_tx[h].is_processed
              /\ processed_tx[h].ethereum_tx_hash = h)
    /\ [][\A h \in DOMAIN processed_tx :
              /\ h \in DOMAIN processed_tx'
              /\ processed_tx'[h] = processed_tx[h]]_vars

\* C17 witness: a mint for a recorded hash, with another amount and at a
\* later time than the record's, was attempted on a bridge that also holds
\* the record of another hash and a burn record.
C17_Witness ==
    /\ last.op = "mint_wrapped"
    /\ last.hash \in DOMAIN processed_tx
    /\ last.result # "Ok"
    /\ last.amount # processed_tx[last.hash].amount
    /\ clock > processed_tx[last.hash].timestamp
    /\ DOMAIN processed_tx = Hashes
    /\ DOMAIN burn_transaction # {}

\* C18 (as claimed): error precedence.  A rejected mint_wrapped reports
\* BridgePaused if the bridge is paused, else AlreadyProcessed if the hash
\* has a record, else InsufficientValidators if the attestations are fewer
\* than required, else the ledger error; a rejected burn_wrapped reports
\* BridgePaused, else InvalidAmount if amount = 0, else the ledger error; a
\* rejected request changes no state.
C18_ErrorPrecedence ==
    [][(/\ bridge_state_init
        /\ last'.op \in {"mint_wrapped", "burn_wrapped"}
        /\ last'.result # "Ok")
       => (/\ last'.result =
                  IF last'.op = "mint_wrapped"
                  THEN IF bridge_state.paused THEN "BridgePaused"
                       ELSE IF last'.hash \in DOMAIN processed_tx
                            THEN "AlreadyProcessed"
                       ELSE IF last'.nsigs < bridge_state.required_validators
                            THEN "InsufficientValidators"
                       ELSE "LedgerError"
                  ELSE IF bridge_state.paused THEN "BridgePaused"
                       ELSE IF last'.amount = 0 THEN "InvalidAmount"
                       ELSE "LedgerError"
           /\ UNCHANGED <<state, history>>)]_vars

\* C19 (as claimed): a mint with amount = 0 for an unprocessed hash on an
\* unpaused bridge with enough attestations succeeds.
C19_MintZeroAlwaysSucceeds ==
    [][(/\ last'.op = "mint_wrapped"
        /\ last'.amount = 0
        /\ bridge_state_init
        /\ ~bridge_state.paused
        /\ last'.hash \notin DOMAIN processed_tx
        /\ last'.nsigs >= bridge_state.required_validators)
       => last'.result = "Ok"]_vars

\* C19 (amended): mint_wrapped never rejects on amount.  No mint_wrapped ends
\* with InvalidAmount, which only burn_wrapped returns.  A mint with
\* amount = 0 for an unprocessed hash h on an unpaused bridge, with enough
\* attestations and a succeeding ledger call, succeeds: it creates the
\* ProcessedTransaction entry of h with amount 0, after which a mint for h is
\* refused, increases nonce by 1 and leaves total_minted unchanged.
C19_MintZeroAmount ==
    /\ [](last.result = "InvalidAmount" => last.op = "burn_wrapped")
    /\ [][(/\ last'.op = "mint_wrapped"
           /\ last'.amount = 0
           /\ bridge_state_init
           /\ ~bridge_state.paused
           /\ last'.hash \notin DOMAIN processed_tx
           /\ last'.nsigs >= bridge_state.required_validators
           /\ last'.ledger_ok)
          => (/\ last'.result = "Ok"
              /\ last'.hash \in DOMAIN processed_tx'
              /\ processed_tx'[last'.hash].amount = 0
              /\ \A h \in Hashes :
                     h = last'.hash
                     => (MintWrappedResult(100, h, <<"v1", "v2">>, TRUE)
                             = {"AccountAlreadyInUse"})'
              /\ bridge_state'.nonce = bridge_state.nonce + 1
              /\ bridge_state'.total_minted = bridge_state.total_minted
              /\ token_supply' = token_supply)]_vars

\* C19 witness: a mint of amount 0 was committed on a bridge that had minted
\* before, and its hash is recorded with amount 0.
C19_Witness ==
    /\ last.op = "mint_wrapped"
    /\ last.result = "Ok"
    /\ last.amount = 0
    /\ processed_tx[last.hash].amount = 0
    /\ bridge_state.total_minted > 0
    /\ bridge_state.nonce > 1

\* C20 (as claimed): supply conservation.  The ledger's supply, which starts
\* at zero and changes only through the bridge's mint and burn calls, equals
\* total_minted - total_burned in every reachable state, so total_burned
\* never exceeds total_minted.
C20_SupplyConservation ==
    /\ token_supply = bridge_state.total_minted - bridge_state.total_burned
    /\ bridge_state.total_burned <= bridge_state.total_minted

====
